---- MODULE Spec2Model ----
(***************************************************************************)
(* Model of cnf_converter.py: parsing and formatting of context-free       *)
(* grammars, the CFG -> CNF pipeline (cfg_to_cnf and its stages) and the   *)
(* bounded word enumerator (generate_words).                               *)
(*                                                                         *)
(* Representation.  A character is an atom written as a TLA+ string; the   *)
(* two non-ASCII characters of the source are the atoms "eps" (the         *)
(* epsilon glyph) and "arrow" (the Unicode arrow).  A Python str is a      *)
(* sequence of characters, so a symbol is a sequence of characters, a      *)
(* production a sequence of symbols.  A Python dict is a sequence of       *)
(* records [k, v] in insertion order.                                      *)
(***************************************************************************)
EXTENDS Integers, Sequences, FiniteSets, TLC

\* ------------------------------------------------------------------
\* Characters and str methods
\* ------------------------------------------------------------------
UpperChars == {"A", "B", "E", "S", "T", "U", "X"}
LowerChars == {"a", "b", "c", "eps"}
SpaceChars == {" ", "\n"}

\* str.isupper(): no lowercase cased character and at least one uppercase
isupper(s) ==
    /\ \A i \in DOMAIN s : s[i] \notin LowerChars
    /\ \E i \in DOMAIN s : s[i] \in UpperChars

\* str.islower(): no uppercase cased character and at least one lowercase
islower(s) ==
    /\ \A i \in DOMAIN s : s[i] \notin UpperChars
    /\ \E i \in DOMAIN s : s[i] \in LowerChars

Digits == <<"0", "1", "2", "3", "4", "5", "6", "7", "8", "9">>

\* str(n) for a natural number n
RECURSIVE str(_)
str(n) == IF n < 10 THEN <<Digits[n + 1]>>
          ELSE str(n \div 10) \o <<Digits[(n % 10) + 1]>>

\* the symbols the source spells out
EPS == <<"eps">>
S0 == <<"S", "0">>
\* the production ['ε']
EPS_PROD == <<EPS>>

\* sep.join(seq) for a sequence of strings
RECURSIVE join(_, _)
join(sep, xs) ==
    IF xs = <<>> THEN <<>>
    ELSE IF Len(xs) = 1 THEN xs[1]
    ELSE xs[1] \o sep \o join(sep, Tail(xs))

\* x in list
InSeq(x, xs) == \E i \in DOMAIN xs : xs[i] = x

\* ------------------------------------------------------------------
\* dict, in insertion order
\* ------------------------------------------------------------------
Keys(d) == {d[i].k : i \in DOMAIN d}
Has(d, key) == \E i \in DOMAIN d : d[i].k = key
Get(d, key) == d[CHOOSE i \in DOMAIN d : d[i].k = key].v
\* d.get(key, default)
GetOr(d, key, default) == IF Has(d, key) THEN Get(d, key) ELSE default
\* d[key] = value: an existing key keeps its position
Put(d, key, value) ==
    IF Has(d, key)
    THEN LET i == CHOOSE n \in DOMAIN d : d[n].k = key
         IN SubSeq(d, 1, i - 1) \o <<[k |-> key, v |-> value]>> \o SubSeq(d, i + 1, Len(d))
    ELSE Append(d, [k |-> key, v |-> value])

\* {**d1, **d2}
RECURSIVE Merge(_, _)
Merge(d1, d2) ==
    IF d2 = <<>> THEN d1
    ELSE Merge(Put(d1, d2[1].k, d2[1].v), Tail(d2))

\* the (nt, prod) pairs visited by
\*   for nt, prods in grammar.items(): for prod in prods:
RECURSIVE Items(_)
Items(g) ==
    IF g = <<>> THEN <<>>
    ELSE [i \in DOMAIN g[1].v |-> [nt |-> g[1].k, prod |-> g[1].v[i]]]
         \o Items(Tail(g))

\* [x for x in xs if x in keep], order kept
RECURSIVE Filter(_, _)
Filter(xs, keep) ==
    IF xs = <<>> THEN <<>>
    ELSE (IF xs[1] \in keep THEN <<xs[1]>> ELSE <<>>) \o Filter(Tail(xs), keep)

\* ------------------------------------------------------------------
\* remove_null_productions
\* ------------------------------------------------------------------
\* one pass of the `while changed` loop over all productions
RECURSIVE NullablePass(_, _)
NullablePass(items, nullable) ==
    IF items = <<>> THEN nullable
    ELSE LET it == items[1]
             hit == \A i \in DOMAIN it.prod : it.prod[i] \in nullable
         IN NullablePass(Tail(items),
                IF hit THEN nullable \cup {it.nt} ELSE nullable)

RECURSIVE NullableFix(_, _)
NullableFix(items, nullable) ==
    LET next == NullablePass(items, nullable)
    IN IF next = nullable THEN nullable ELSE NullableFix(items, next)

Nullable(grammar) ==
    LET items == Items(grammar)
        direct == {items[i].nt : i \in {j \in DOMAIN items : items[j].prod = EPS_PROD}}
    IN NullableFix(items, direct)

\* (mask >> j) & 1
Bit(mask, j) == (mask \div (2 ^ j)) % 2

\* positions.index(i), zero-based
IndexOf(positions, i) == (CHOOSE j \in DOMAIN positions : positions[j] = i) - 1

\* the inner loop building new_prod for one mask
RECURSIVE MaskedProd(_, _, _, _)
MaskedProd(prod, positions, mask, i) ==
    IF i > Len(prod) THEN <<>>
    ELSE LET skip == /\ InSeq(i, positions)
                     /\ Bit(mask, IndexOf(positions, i)) = 1
         IN (IF skip THEN <<>> ELSE <<prod[i]>>)
            \o MaskedProd(prod, positions, mask, i + 1)

\* indices 1..n in increasing order that satisfy the test
RECURSIVE PositionsFrom(_, _, _)
PositionsFrom(prod, nullable, i) ==
    IF i > Len(prod) THEN <<>>
    ELSE (IF prod[i] \in nullable THEN <<i>> ELSE <<>>)
         \o PositionsFrom(prod, nullable, i + 1)

\* for mask in range(total): ... for one production of nt
RECURSIVE NullMaskLoop(_, _, _, _, _, _)
NullMaskLoop(nt, prod, positions, mask, start, new_grammar) ==
    IF mask >= 2 ^ Len(positions) THEN new_grammar
    ELSE LET raw == MaskedProd(prod, positions, mask, 1)
             drop == raw = <<>> /\ nt # start
             new_prod == IF raw = <<>> THEN EPS_PROD ELSE raw
             old == GetOr(new_grammar, nt, <<>>)
             ng == IF drop THEN new_grammar
                   ELSE IF InSeq(new_prod, old) THEN Put(new_grammar, nt, old)
                   ELSE Put(new_grammar, nt, Append(old, new_prod))
         IN NullMaskLoop(nt, prod, positions, mask + 1, start, ng)

RECURSIVE NullLoop(_, _, _, _)
NullLoop(items, nullable, start, new_grammar) ==
    IF items = <<>> THEN new_grammar
    ELSE LET it == items[1]
             ng == IF it.prod = EPS_PROD THEN new_grammar
                   ELSE NullMaskLoop(it.nt, it.prod,
                            PositionsFrom(it.prod, nullable, 1), 0, start, new_grammar)
         IN NullLoop(Tail(items), nullable, start, ng)

remove_null_productions(grammar, start) ==
    NullLoop(Items(grammar), Nullable(grammar), start, <<>>)

\* ------------------------------------------------------------------
\* remove_unit_productions
\* ------------------------------------------------------------------
\* a production the code follows instead of copying
\* a variant that follows no unit production
IsUnit_never(grammar, prod) == FALSE

IsUnit(grammar, prod) == Len(prod) = 1 /\ Has(grammar, prod[1])

\* for prod in grammar.get(current, []): one dequeued nonterminal
RECURSIVE UnitProds(_, _, _)
UnitProds(grammar, prods, st) ==
    IF prods = <<>> THEN st
    ELSE LET prod == prods[1]
             st2 == IF IsUnit(grammar, prod)
                    THEN IF prod[1] \in st.visited THEN st
                         ELSE [st EXCEPT !.queue = Append(@, prod[1]),
                                         !.visited = @ \cup {prod[1]}]
                    ELSE [st EXCEPT !.touched = TRUE,
                                    !.out = IF InSeq(prod, @) THEN @ ELSE Append(@, prod)]
         IN UnitProds(grammar, Tail(prods), st2)

\* while queue: current = queue.pop(0) ...
RECURSIVE UnitBfs(_, _)
UnitBfs(grammar, st) ==
    IF st.queue = <<>> THEN st
    ELSE LET current == Head(st.queue)
             popped == [st EXCEPT !.queue = Tail(@)]
         IN UnitBfs(grammar, UnitProds(grammar, GetOr(grammar, current, <<>>), popped))

RECURSIVE UnitLoop(_, _, _)
UnitLoop(grammar, i, new_grammar) ==
    IF i > Len(grammar) THEN new_grammar
    ELSE LET nt == grammar[i].k
             st == UnitBfs(grammar, [queue |-> <<nt>>, visited |-> {},
                                     out |-> <<>>, touched |-> FALSE])
         IN UnitLoop(grammar, i + 1,
                IF st.touched THEN Put(new_grammar, nt, st.out) ELSE new_grammar)

remove_unit_productions(grammar) == UnitLoop(grammar, 1, <<>>)

\* ------------------------------------------------------------------
\* remove_useless_symbols
\* ------------------------------------------------------------------
\* all(s in generating or s not in grammar for s in prod)
ProdGenerates(grammar, generating, prod) ==
    \A i \in DOMAIN prod : prod[i] \in generating \/ ~Has(grammar, prod[i])

RECURSIVE GeneratingPass(_, _, _)
GeneratingPass(grammar, items, generating) ==
    IF items = <<>> THEN generating
    ELSE LET it == items[1]
         IN GeneratingPass(grammar, Tail(items),
                IF ProdGenerates(grammar, generating, it.prod)
                THEN generating \cup {it.nt} ELSE generating)

RECURSIVE GeneratingFix(_, _, _)
GeneratingFix(grammar, items, generating) ==
    LET next == GeneratingPass(grammar, items, generating)
    IN IF next = generating THEN generating ELSE GeneratingFix(grammar, items, next)

Generating(grammar) ==
    LET items == Items(grammar)
        direct == {items[i].nt : i \in {j \in DOMAIN items :
                      \A n \in DOMAIN items[j].prod : ~Has(grammar, items[j].prod[n])}}
    IN GeneratingFix(grammar, items, direct)

\* [prod for prod in prods if ...]
RECURSIVE KeepGenerating(_, _, _)
KeepGenerating(grammar, generating, prods) ==
    IF prods = <<>> THEN <<>>
    ELSE (IF ProdGenerates(grammar, generating, prods[1]) THEN <<prods[1]>> ELSE <<>>)
         \o KeepGenerating(grammar, generating, Tail(prods))

\* {nt: ... for nt, prods in grammar.items() if nt in keep}
RECURSIVE SelectKeys(_, _)
SelectKeys(d, keep) ==
    IF d = <<>> THEN <<>>
    ELSE (IF d[1].k \in keep THEN <<d[1]>> ELSE <<>>) \o SelectKeys(Tail(d), keep)

\* the symbols of all productions of nt, in the order the loops visit them
RECURSIVE Concat(_)
Concat(xss) == IF xss = <<>> THEN <<>> ELSE xss[1] \o Concat(Tail(xss))

\* while queue: nt = queue.pop(0) ...
RECURSIVE ReachBfs(_, _, _)
ReachBfs(grammar, queue, reachable) ==
    IF queue = <<>> THEN reachable
    ELSE LET nt == Head(queue)
         IN IF nt \in reachable THEN ReachBfs(grammar, Tail(queue), reachable)
            ELSE LET r2 == reachable \cup {nt}
                     syms == Concat(GetOr(grammar, nt, <<>>))
                     add == Filter(syms, {s \in Keys(grammar) : s \notin r2})
                 IN ReachBfs(grammar, Tail(queue) \o add, r2)

remove_useless_symbols(grammar, start) ==
    LET generating == Generating(grammar)
        g1 == [i \in DOMAIN SelectKeys(grammar, generating) |->
                 [k |-> SelectKeys(grammar, generating)[i].k,
                  v |-> KeepGenerating(grammar, generating,
                                       SelectKeys(grammar, generating)[i].v)]]
        reachable == ReachBfs(g1, <<start>>, {})
    IN SelectKeys(g1, reachable)

\* ------------------------------------------------------------------
\* convert_to_cnf, step 1: terminals of long productions -> T<n>
\* ------------------------------------------------------------------
\* the test the code uses for "symbol is a terminal"
IsTerminalSpelling(symbol) == Len(symbol) = 1 /\ islower(symbol)

\* for symbol in prod: ... new_prod.append(...)
\* st = [prod: new_prod so far, term_map, term_counter, fresh]
RECURSIVE IsolateSymbols(_, _, _)
IsolateSymbols(prod, st, existing) ==
    IF prod = <<>> THEN st
    ELSE LET symbol == prod[1]
             st2 == IF IsTerminalSpelling(symbol)
                    THEN LET new_nt == <<"T">> \o str(st.term_counter)
                             st1 == IF Has(st.term_map, symbol) THEN st
                                    ELSE [st EXCEPT
                                           !.term_counter = @ + 1,
                                           !.term_map = Put(@, symbol, new_nt),
                                           !.fresh = Append(@, [name |-> new_nt,
                                                                existing |-> existing])]
                         IN [st1 EXCEPT !.prod = Append(@, Get(st1.term_map, symbol))]
                    ELSE [st EXCEPT !.prod = Append(@, symbol)]
         IN IsolateSymbols(Tail(prod), st2, existing)

\* for nt, prods in grammar.items(): for prod in prods: ...
RECURSIVE IsolateLoop(_, _, _)
IsolateLoop(items, st, keys) ==
    IF items = <<>> THEN st
    ELSE LET it == items[1]
             old == GetOr(st.new_grammar, it.nt, <<>>)
             st2 == IF Len(it.prod) > 1
                    THEN LET r == IsolateSymbols(it.prod, [st EXCEPT !.prod = <<>>],
                                                 keys \cup Keys(st.new_grammar))
                         IN [r EXCEPT !.new_grammar = Put(@, it.nt, Append(old, r.prod))]
                    ELSE [st EXCEPT !.new_grammar = Put(@, it.nt, Append(old, it.prod))]
         IN IsolateLoop(Tail(items), st2, keys)

\* for t, nt_for_t in term_map.items(): new_grammar[nt_for_t].append([t])
RECURSIVE AddTermProds(_, _)
AddTermProds(term_map, new_grammar) ==
    IF term_map = <<>> THEN new_grammar
    ELSE LET t == term_map[1].k
             nt_for_t == term_map[1].v
         IN AddTermProds(Tail(term_map),
                Put(new_grammar, nt_for_t,
                    Append(GetOr(new_grammar, nt_for_t, <<>>), <<t>>)))

\* lines 223-245; returns [new_grammar, term_map, fresh]
TerminalIsolation(grammar) ==
    LET st == IsolateLoop(Items(grammar),
                  [new_grammar |-> <<>>, term_map |-> <<>>, term_counter |-> 1,
                   prod |-> <<>>, fresh |-> <<>>],
                  Keys(grammar))
    IN [new_grammar |-> AddTermProds(st.term_map, st.new_grammar),
        term_map |-> st.term_map,
        fresh |-> st.fresh]

\* ------------------------------------------------------------------
\* convert_to_cnf, step 2: productions longer than 2
\* ------------------------------------------------------------------
Sym(c) == <<c>>
A1 == <<"A", "1">>
T1 == <<"T", "1">>

\* the dict literal, entries in source order (a repeated key keeps its
\* first position and takes the last value)
book_pair_map ==
    Merge(<<>>, <<
        [k |-> <<Sym("S"), Sym("A")>>, v |-> A1],
        [k |-> <<Sym("U"), Sym("B")>>, v |-> <<"U", "B">>],
        [k |-> <<Sym("A"), A1>>,       v |-> <<"A", "A", "1">>],
        [k |-> <<Sym("A"), Sym("S")>>, v |-> <<"A", "S">>],
        [k |-> <<Sym("S"), A1>>,       v |-> <<"S", "A", "1">>],
        [k |-> <<Sym("S"), Sym("A")>>, v |-> <<"S", "A">>],
        [k |-> <<Sym("A"), Sym("S")>>, v |-> <<"A", "S">>],
        [k |-> <<T1, Sym("B")>>,       v |-> <<"T", "1", "B">>],
        [k |-> <<Sym("A"), Sym("S")>>, v |-> <<"A", "S">>],
        [k |-> <<Sym("A"), Sym("A")>>, v |-> <<"A", "A">>] >>)

\* final_grammar[key].add(prod) on a defaultdict(set)
AddProd(final_grammar, key, prod) ==
    Put(final_grammar, key, GetOr(final_grammar, key, {}) \cup {prod})

\* get_var_for_pair; st = [final_grammar, pair_map, var_counter, fresh, name]
get_var_for_pair(pair, st, keys) ==
    IF Has(book_pair_map, pair)
    THEN LET name == Get(book_pair_map, pair)
         IN IF ~Has(st.final_grammar, name)
            THEN [st EXCEPT !.final_grammar = AddProd(@, name, pair),
                            !.fresh = Append(@, [name |-> name,
                                 existing |-> keys \cup Keys(st.final_grammar)]),
                            !.name = name]
            ELSE [st EXCEPT !.name = name]
    ELSE IF Has(st.pair_map, pair)
    THEN [st EXCEPT !.name = Get(st.pair_map, pair)]
    ELSE LET new_nt == <<"X">> \o str(st.var_counter)
         IN [st EXCEPT !.var_counter = @ + 1,
                       !.pair_map = Put(@, pair, new_nt),
                       !.final_grammar = AddProd(@, new_nt, pair),
                       !.fresh = Append(@, [name |-> new_nt,
                            existing |-> keys \cup Keys(st.final_grammar)]),
                       !.name = new_nt]

\* while len(current) > 2: ...   followed by the add after the loop
RECURSIVE BinarizeProd(_, _, _, _)
BinarizeProd(current, prev_nt, st, keys) ==
    IF Len(current) > 2
    THEN LET pair == <<current[1], current[2]>>
             st1 == get_var_for_pair(pair, st, keys)
             new_nt == st1.name
             st2 == [st1 EXCEPT !.final_grammar =
                        AddProd(@, prev_nt, <<current[1], new_nt>>)]
         IN BinarizeProd(<<new_nt>> \o SubSeq(current, 3, Len(current)),
                         new_nt, st2, keys)
    ELSE [st EXCEPT !.final_grammar = AddProd(@, prev_nt, current)]

RECURSIVE BinarizeLoop(_, _, _)
BinarizeLoop(items, st, keys) ==
    IF items = <<>> THEN st
    ELSE BinarizeLoop(Tail(items),
             BinarizeProd(items[1].prod, items[1].nt, st, keys), keys)

\* lines 248-290; returns [final_grammar, pair_map, fresh]
Binarization(new_grammar) ==
    LET st == BinarizeLoop(Items(new_grammar),
                  [final_grammar |-> <<>>, pair_map |-> <<>>, var_counter |-> 1,
                   fresh |-> <<>>, name |-> <<>>],
                  Keys(new_grammar))
    IN [final_grammar |-> st.final_grammar, pair_map |-> st.pair_map,
        fresh |-> st.fresh]

\* ------------------------------------------------------------------
\* convert_to_cnf, step 3: the final filter
\* ------------------------------------------------------------------
\* prod == ['ε'] where prod is a tuple: a tuple never equals a list
TupleEqualsList(prod, list) == FALSE

\* the test deciding whether a production of final_grammar is copied
KeptByCleanup(nt, prod, start) ==
    IF Len(prod) = 1
    THEN IF TupleEqualsList(prod, EPS_PROD) THEN nt = start ELSE TRUE
    ELSE Len(prod) = 2 /\ \A i \in DOMAIN prod : isupper(prod[i])

\* cleaned_grammar as nt -> set of kept productions; a nonterminal none of
\* whose productions is kept gets no key
RECURSIVE CleanedSets(_, _)
CleanedSets(final_grammar, start) ==
    IF final_grammar = <<>> THEN <<>>
    ELSE LET nt == final_grammar[1].k
             kept == {prod \in final_grammar[1].v : KeptByCleanup(nt, prod, start)}
         IN (IF kept = {} THEN <<>> ELSE <<[k |-> nt, v |-> kept]>>)
            \o CleanedSets(Tail(final_grammar), start)

\* the orders in which `for prod in prods` can visit a set
Orders(set) ==
    {f \in [1..Cardinality(set) -> set] :
        \A i, j \in 1..Cardinality(set) : i # j => f[i] # f[j]}

\* the dicts of lists the cleanup loop can build: iteration over each set
\* of productions follows the hash order of the run
RECURSIVE CleanedGrammars(_)
CleanedGrammars(sets) ==
    IF sets = <<>> THEN {<<>>}
    ELSE {<<[k |-> sets[1].k, v |-> ps]>> \o rest :
             ps \in Orders(sets[1].v), rest \in CleanedGrammars(Tail(sets))}

\* ------------------------------------------------------------------
\* format_grammar
\* ------------------------------------------------------------------
\* [f(x) for x in xs] for join(" ", .)
RECURSIVE JoinEach(_, _)
JoinEach(sep, xss) ==
    IF xss = <<>> THEN <<>>
    ELSE <<join(sep, xss[1])>> \o JoinEach(sep, Tail(xss))

FormatLine(nt, prods) ==
    nt \o <<" ", "-", ">", " ">> \o join(<<" ", "|", " ">>, JoinEach(<<" ">>, prods))

RECURSIVE FormatLines(_)
FormatLines(grammar) ==
    IF grammar = <<>> THEN <<>>
    ELSE <<FormatLine(grammar[1].k, grammar[1].v)>> \o FormatLines(Tail(grammar))

format_grammar(grammar) == join(<<"\n">>, FormatLines(grammar))

\* ------------------------------------------------------------------
\* parse_cfg
\* ------------------------------------------------------------------
\* str.strip()
RECURSIVE LStrip(_)
LStrip(s) == IF s # <<>> /\ s[1] \in SpaceChars THEN LStrip(Tail(s)) ELSE s

RECURSIVE RStrip(_)
RStrip(s) == IF s # <<>> /\ s[Len(s)] \in SpaceChars
             THEN RStrip(SubSeq(s, 1, Len(s) - 1)) ELSE s

strip(s) == RStrip(LStrip(s))

\* str.split(sep) for a one-character separator: always at least one piece
RECURSIVE split(_, _)
split(s, sep) ==
    IF \A i \in DOMAIN s : s[i] # sep THEN <<s>>
    ELSE LET p == CHOOSE i \in DOMAIN s :
                     s[i] = sep /\ \A j \in 1..(i - 1) : s[j] # sep
         IN <<SubSeq(s, 1, p - 1)>> \o split(SubSeq(s, p + 1, Len(s)), sep)

\* str.splitlines(): as split on the newline, without a trailing empty line
splitlines(s) ==
    IF s = <<>> THEN <<>>
    ELSE LET parts == split(s, "\n")
         IN IF parts[Len(parts)] = <<>> THEN SubSeq(parts, 1, Len(parts) - 1)
            ELSE parts

\* str.split(): on runs of whitespace, no empty piece
RECURSIVE split_ws(_)
split_ws(s) ==
    LET t == LStrip(s)
    IN IF t = <<>> THEN <<>>
       ELSE IF \A i \in DOMAIN t : t[i] \notin SpaceChars THEN <<t>>
       ELSE LET p == CHOOSE i \in DOMAIN t :
                        t[i] \in SpaceChars /\ \A j \in 1..(i - 1) : t[j] \notin SpaceChars
            IN <<SubSeq(t, 1, p - 1)>> \o split_ws(SubSeq(t, p, Len(t)))

\* prod.replace('E', 'ε')
replace(s, old, new) == [i \in DOMAIN s |-> IF s[i] = old THEN new ELSE s[i]]

\* where an arrow starts at position i of line, its length; otherwise 0
ArrowAt(line, i) ==
    IF line[i] = "arrow" THEN 1
    ELSE IF line[i] = "-" /\ i < Len(line) /\ line[i + 1] = ">" THEN 2
    ELSE 0

\* arrow_pattern.split(line, maxsplit=1): the pieces around the first arrow
\* and the whitespace next to it, <<line>> when the line has no arrow
arrow_split(line) ==
    IF \A i \in DOMAIN line : ArrowAt(line, i) = 0 THEN <<line>>
    ELSE LET p == CHOOSE i \in DOMAIN line :
                     ArrowAt(line, i) > 0 /\ \A j \in 1..(i - 1) : ArrowAt(line, j) = 0
             n == ArrowAt(line, p)
         IN <<RStrip(SubSeq(line, 1, p - 1)),
              SubSeq(line, p, p + n - 1),
              LStrip(SubSeq(line, p + n, Len(line)))>>

\* list(prod)
list(s) == [i \in DOMAIN s |-> <<s[i]>>]

\* lines 28-37: the symbols of one alternative
Tokenize(alt) ==
    LET prod == replace(alt, "E", "eps")
    IN IF prod = EPS THEN EPS_PROD
       ELSE IF \E i \in DOMAIN prod : prod[i] = " " THEN split_ws(prod)
       ELSE list(prod)

RECURSIVE ParseAlts(_, _, _)
ParseAlts(alts, left, grammar) ==
    IF alts = <<>> THEN grammar
    ELSE ParseAlts(Tail(alts), left,
             Put(grammar, left,
                 Append(GetOr(grammar, left, <<>>), Tokenize(strip(alts[1])))))

RECURSIVE ParseLines(_, _)
ParseLines(lines, grammar) ==
    IF lines = <<>> THEN grammar
    ELSE LET line == strip(lines[1])
             m == arrow_split(line)
         IN IF line = <<>> \/ Len(m) < 3 THEN ParseLines(Tail(lines), grammar)
            ELSE ParseLines(Tail(lines),
                     ParseAlts(split(strip(m[3]), "|"), strip(m[1]), grammar))

parse_cfg(cfg_str) == ParseLines(splitlines(strip(cfg_str)), <<>>)

\* ------------------------------------------------------------------
\* generate_words (the definition in force: lines 314-359)
\* ------------------------------------------------------------------
\* "".join(s for s in seq if s not in grammar and s != "ε")
RECURSIVE CurrentWord(_, _)
CurrentWord(grammar, seq) ==
    IF seq = <<>> THEN <<>>
    ELSE (IF ~Has(grammar, seq[1]) /\ seq[1] # EPS THEN seq[1] ELSE <<>>)
         \o CurrentWord(grammar, Tail(seq))

\* [t for t in prod if t != "ε"]
RECURSIVE DropEps(_)
DropEps(prod) ==
    IF prod = <<>> THEN <<>>
    ELSE (IF prod[1] # EPS THEN <<prod[1]>> ELSE <<>>) \o DropEps(Tail(prod))

\* the sequences enqueued by expanding the first nonterminal of seq
Expansions(grammar, seq) ==
    LET i == CHOOSE n \in DOMAIN seq :
                 Has(grammar, seq[n]) /\ \A j \in 1..(n - 1) : ~Has(grammar, seq[j])
        prods == Get(grammar, seq[i])
    IN [n \in DOMAIN prods |->
          SubSeq(seq, 1, i - 1) \o DropEps(prods[n]) \o SubSeq(seq, i + 1, Len(seq))]

\* the test that discards a dequeued sequence
\* a variant that prunes one character early
Pruned_early(grammar, seq, max_length) == Len(CurrentWord(grammar, seq)) >= max_length

Pruned(grammar, seq, max_length) == Len(CurrentWord(grammar, seq)) > max_length

\* one iteration of `while queue:`; st = [queue, words]
GenIteration(grammar, max_length, st) ==
    LET seq == Head(st.queue)
        rest == Tail(st.queue)
    IN IF Pruned(grammar, seq, max_length) THEN [st EXCEPT !.queue = rest]
       ELSE IF \A i \in DOMAIN seq : ~Has(grammar, seq[i])
       THEN [queue |-> rest, words |-> st.words \cup {CurrentWord(grammar, seq)}]
       ELSE [st EXCEPT !.queue = rest \o Expansions(grammar, seq)]

\* return {w for w in words if len(w) <= max_length}
GenResult(words, max_length) == {w \in words : Len(w) <= max_length}

\* up to `fuel` iterations of the loop, stopping when the queue is empty
RECURSIVE GenRun(_, _, _, _)
GenRun(grammar, max_length, st, fuel) ==
    IF st.queue = <<>> \/ fuel = 0 THEN st
    ELSE GenRun(grammar, max_length, GenIteration(grammar, max_length, st), fuel - 1)

\* ------------------------------------------------------------------
\* Inputs
\* ------------------------------------------------------------------
\* most productions listed under one nonterminal of an input grammar
MaxProds == 2
\* most productions listed under each further nonterminal
MaxOtherProds == 1
\* largest max_length handed to generate_words
MaxLength == 2
\* iterations of generate_words' loop followed when two grammars are compared
MaxGenSteps == 40

\* the subsequences of pool with at most n elements
RECURSIVE Subs(_, _)
Subs(pool, n) ==
    IF pool = <<>> \/ n = 0 THEN {<<>>}
    ELSE Subs(Tail(pool), n)
         \cup {<<Head(pool)>> \o rest : rest \in Subs(Tail(pool), n - 1)}

Entry(nt, prods) == IF prods = <<>> THEN <<>> ELSE <<[k |-> nt, v |-> prods]>>

\* productions the input grammars of the pipeline are built from
StartPool == << EPS_PROD, <<Sym("a")>>, <<Sym("A")>>, <<S0>>,
                <<Sym("a"), Sym("A")>>, <<Sym("S"), Sym("S")>>,
                <<Sym("0"), Sym("0")>>, <<Sym("a"), Sym("b"), Sym("A")>> >>
OtherPool == << EPS_PROD, <<Sym("a")>>, <<Sym("S")>>, <<Sym("a"), Sym("A")>> >>
S0Pool == << <<Sym("S"), Sym("S")>>, <<Sym("a")>> >>

\* grammars as parse_cfg can return them: first key S, then A and S0 if present
InputGrammars ==
    {Entry(Sym("S"), s) \o Entry(Sym("A"), a) \o Entry(S0, z) :
        s \in Subs(StartPool, MaxProds) \ {<<>>},
        a \in Subs(OtherPool, MaxOtherProds),
        z \in Subs(S0Pool, MaxOtherProds)}

\* ------------------------------------------------------------------
\* State
\* ------------------------------------------------------------------
VARIABLES
    pc,             \* position in the operation being run
    cfg,            \* the grammar cfg_to_cnf was called with
    grammar,        \* cfg_to_cnf: local `grammar`
    start,          \* cfg_to_cnf: local `start`
    steps,          \* cfg_to_cnf: local `steps`
    cnf_in,         \* convert_to_cnf: parameter `grammar`
    new_grammar,    \* convert_to_cnf: local `new_grammar` after step 1
    final_grammar,  \* convert_to_cnf: local `final_grammar` after step 2
    fresh,          \* the names the run made up, each with the keys present then
    cnf_str,        \* the text cfg_to_cnf returns
    src_words,      \* generate_words on cfg
    cnf_words,      \* generate_words on parse_cfg(cnf_str)
    max_length,     \* generate_words: parameter
    queue,          \* generate_words: local `queue`
    words,          \* generate_words: local `words`
    text,           \* format_grammar's result
    parsed          \* parse_cfg's result

vars == <<pc, cfg, grammar, start, steps, cnf_in, new_grammar, final_grammar,
          fresh, cnf_str, src_words, cnf_words, max_length, queue, words,
          text, parsed>>

convVars == <<cnf_in, new_grammar, final_grammar, cnf_str>>
cmpVars == <<src_words, cnf_words>>
genVars == <<max_length, queue, words>>
fmtVars == <<text, parsed>>

NoWords == [returned |-> FALSE, words |-> {}]

\* values of the variables an operation does not use
Idle ==
    /\ cnf_in = <<>> /\ new_grammar = <<>> /\ final_grammar = <<>>
    /\ fresh = <<>> /\ cnf_str = <<>> /\ steps = <<>>
    /\ src_words = NoWords /\ cnf_words = NoWords
    /\ max_length = 0 /\ queue = <<>> /\ words = {}
    /\ text = <<>> /\ parsed = <<>>

\* ------------------------------------------------------------------
\* cfg_to_cnf
\* ------------------------------------------------------------------
Init ==
    /\ pc = "start"
    /\ cfg \in InputGrammars
    /\ grammar = cfg
    /\ start = cfg[1].k
    /\ Idle

\* any(start in prod for prods in grammar.values() for prod in prods)
StartOnRhs(g, s) ==
    \E i \in DOMAIN g : \E j \in DOMAIN g[i].v : InSeq(s, g[i].v[j])

\* steps.append((title, format_grammar(g)))
add_step(title, g) == steps' = Append(steps, <<title, format_grammar(g)>>)

\* lines 49-57
AddStartSymbol ==
    /\ pc = "start"
    /\ IF StartOnRhs(grammar, start)
       THEN LET g == Merge(<<[k |-> S0, v |-> <<<<start>>>>]>>, grammar)
            IN /\ grammar' = g
               /\ start' = S0
               /\ fresh' = Append(fresh, [name |-> S0, existing |-> Keys(grammar)])
               /\ add_step("Add new start symbol", g)
       ELSE /\ add_step("Original grammar", grammar)
            /\ UNCHANGED <<grammar, start, fresh>>
    /\ pc' = "null"
    /\ UNCHANGED <<cfg, convVars, cmpVars, genVars, fmtVars>>

\* lines 59-61
RemoveNull ==
    /\ pc = "null"
    /\ grammar' = remove_null_productions(grammar, start)
    /\ add_step("After removing eps-productions", grammar')
    /\ pc' = "unit"
    /\ UNCHANGED <<cfg, start, fresh, convVars, cmpVars, genVars, fmtVars>>

\* lines 63-65
RemoveUnit ==
    /\ pc = "unit"
    /\ grammar' = remove_unit_productions(grammar)
    /\ add_step("After removing unit productions", grammar')
    /\ pc' = "useless"
    /\ UNCHANGED <<cfg, start, fresh, convVars, cmpVars, genVars, fmtVars>>

\* lines 67-69
RemoveUseless ==
    /\ pc = "useless"
    /\ grammar' = remove_useless_symbols(grammar, start)
    /\ add_step("After removing useless symbols", grammar')
    /\ pc' = "cnf"
    /\ UNCHANGED <<cfg, start, fresh, convVars, cmpVars, genVars, fmtVars>>

\* lines 71-75, with convert_to_cnf (lines 221-305) inlined
ConvertToCnf ==
    /\ pc = "cnf"
    /\ LET iso == TerminalIsolation(grammar)
           bin == Binarization(iso.new_grammar)
       IN /\ cnf_in' = grammar
          /\ new_grammar' = iso.new_grammar
          /\ final_grammar' = bin.final_grammar
          /\ fresh' = fresh \o iso.fresh \o bin.fresh
          /\ grammar' \in CleanedGrammars(CleanedSets(bin.final_grammar, start))
    /\ add_step("Chomsky Normal Form (CNF)", grammar')
    /\ cnf_str' = format_grammar(grammar')
    /\ pc' = "returned"
    /\ UNCHANGED <<cfg, start, cmpVars, genVars, fmtVars>>

\* generate_words(grammar, start, max_length) run for at most MaxGenSteps
\* iterations: the set it returns, if it returns within them
generate_words(g, s, L) ==
    LET st == GenRun(g, L, [queue |-> <<<<s>>>>, words |-> {}], MaxGenSteps)
    IN [returned |-> st.queue = <<>>, words |-> GenResult(st.words, L)]

\* the comparison of test_cfg_to_cnf_produces_valid_cnf: the words of the
\* grammar given and those of the grammar parsed back from the CNF text
CompareWords ==
    /\ pc = "returned"
    /\ \E L \in 0..MaxLength :
          /\ src_words' = generate_words(cfg, cfg[1].k, L)
          /\ cnf_words' = generate_words(parse_cfg(cnf_str), start, L)
    /\ pc' = "compared"
    /\ UNCHANGED <<cfg, grammar, start, steps, fresh, convVars, genVars, fmtVars>>

Next ==
    \/ AddStartSymbol
    \/ RemoveNull
    \/ RemoveUnit
    \/ RemoveUseless
    \/ ConvertToCnf
    \/ CompareWords

Spec == Init /\ [][Next]_vars

\* ------------------------------------------------------------------
\* Properties of cfg_to_cnf
\* ------------------------------------------------------------------
Returned == pc \in {"returned", "compared"}
AfterNull == pc \in {"unit", "useless", "cnf", "returned", "compared"}

\* strict Chomsky Normal Form relative to s: every production is [eps], one
\* terminal (no key of g), or two nonterminals (keys of g), and [eps] is
\* under `s` only
IsStrictCnf(g, s) ==
    \A i \in DOMAIN g : \A j \in DOMAIN g[i].v :
        LET prod == g[i].v[j]
        IN /\ \/ prod = EPS_PROD
              \/ Len(prod) = 1 /\ ~Has(g, prod[1])
              \/ Len(prod) = 2 /\ Has(g, prod[1]) /\ Has(g, prod[2])
           /\ prod = EPS_PROD => g[i].k = s

\* C1: the grammar cfg_to_cnf returns is in strict Chomsky Normal Form
\* relative to the start symbol the pipeline used.
C1_CnfValid == Returned => IsStrictCnf(grammar, start)

\* C2: for every length bound, generate_words returns the same set for the
\* grammar given to cfg_to_cnf and for the grammar cfg_to_cnf produced.
C2_WordsPreserved ==
    (pc = "compared" /\ src_words.returned /\ cnf_words.returned)
        => src_words.words = cnf_words.words

\* no nonterminal other than s has the production [eps]
EpsilonConfined(g, s) ==
    \A i \in DOMAIN g : g[i].k # s => ~InSeq(EPS_PROD, g[i].v)

\* C3: from the epsilon-elimination stage on, no nonterminal other than the
\* pipeline's start symbol has an [eps] production.
C3_EpsilonConfined == AfterNull => EpsilonConfined(grammar, start)

\* C6: every name the run made up differs from every key present when it was
\* made up and from every name made up before it.
C6_FreshNamesDistinct ==
    \A i \in DOMAIN fresh :
        /\ fresh[i].name \notin fresh[i].existing
        /\ \A j \in 1..(i - 1) : fresh[j].name # fresh[i].name

\* the nonterminals binarization introduced
Introduced == Keys(final_grammar) \ Keys(new_grammar)

LongestProd(g) ==
    LET items == Items(g)
    IN IF items = <<>> THEN 0
       ELSE CHOOSE n \in {Len(items[i].prod) : i \in DOMAIN items} :
                \A i \in DOMAIN items : Len(items[i].prod) <= n

\* replace the first introduced nonterminal of seq by each of its productions
ExpandFirst(seq) ==
    LET i == CHOOSE n \in DOMAIN seq :
                 seq[n] \in Introduced /\ \A j \in 1..(n - 1) : seq[j] \notin Introduced
    IN {SubSeq(seq, 1, i - 1) \o p \o SubSeq(seq, i + 1, Len(seq)) :
            p \in Get(final_grammar, seq[i])}

HasIntroduced(seq) == \E i \in DOMAIN seq : seq[i] \in Introduced

\* the sequences of at most `bound` symbols, free of introduced nonterminals,
\* that the sequences of `seqs` expand to
RECURSIVE ExpandIntroduced(_, _)
ExpandIntroduced(seqs, bound) ==
    LET open == {q \in seqs : HasIntroduced(q)}
        next == {q \in UNION {ExpandFirst(o) : o \in open} : Len(q) <= bound}
    IN IF open = {} THEN seqs
       ELSE (seqs \ open) \cup ExpandIntroduced(next, bound)

\* C8: expanding only the introduced nonterminals from A yields exactly the
\* productions A had before binarization (a production of length at most 2
\* being its own expansion).
C8_BinarizationChains ==
    Returned =>
        \A i \in DOMAIN new_grammar :
            ExpandIntroduced(GetOr(final_grammar, new_grammar[i].k, {}),
                             LongestProd(new_grammar) + 1)
                = {new_grammar[i].v[j] : j \in DOMAIN new_grammar[i].v}

\* the terminals (symbols that are no key of g) occurring in the productions
\* of g longer than one symbol
LongTerminals(g) ==
    LET items == Items(g)
    IN UNION {{items[i].prod[n] : n \in {m \in DOMAIN items[i].prod :
                                          ~Has(g, items[i].prod[m])}} :
              i \in {j \in DOMAIN items : Len(items[j].prod) > 1}}

\* prod with each terminal t of a long production replaced by D[t]
Isolated(g, D, prod) ==
    IF Len(prod) > 1
    THEN [n \in DOMAIN prod |-> IF Has(g, prod[n]) THEN prod[n] ELSE D[prod[n]]]
    ELSE prod

\* C9: after terminal isolation every production longer than one symbol
\* consists only of nonterminals: each terminal (a symbol that is no key) in
\* such a production is replaced by one dedicated new nonterminal whose only
\* production is that terminal; other productions are untouched, none dropped.
C9_TerminalsIsolated ==
    Returned =>
        /\ \A i \in DOMAIN new_grammar : \A j \in DOMAIN new_grammar[i].v :
              Len(new_grammar[i].v[j]) > 1 =>
                  \A n \in DOMAIN new_grammar[i].v[j] :
                      Has(new_grammar, new_grammar[i].v[j][n])
        /\ \E D \in [LongTerminals(cnf_in) -> Keys(new_grammar) \ Keys(cnf_in)] :
              /\ \A t, u \in DOMAIN D : t # u => D[t] # D[u]
              /\ \A t \in DOMAIN D : Get(new_grammar, D[t]) = <<<<t>>>>
              /\ \A i \in DOMAIN cnf_in :
                    /\ Has(new_grammar, cnf_in[i].k)
                    /\ Get(new_grammar, cnf_in[i].k)
                         = [j \in DOMAIN cnf_in[i].v |->
                              Isolated(cnf_in, D, cnf_in[i].v[j])]

\* ------------------------------------------------------------------
\* generate_words, one loop iteration per step
\* ------------------------------------------------------------------
\* most productions under one nonterminal of an enumerated grammar
MaxGenProds == 2
\* queue length beyond which the model stops following the loop
MaxQueue == 8
\* length of a dequeued sequence beyond which the model stops following the loop
MaxSeqLen == 4

GenPool == << EPS_PROD, <<Sym("a")>>, <<Sym("b")>>, <<Sym("A")>>,
              <<Sym("a"), Sym("S")>>, <<Sym("A"), Sym("S")>>, <<Sym("S"), Sym("S")>> >>

GenGrammars ==
    {Entry(Sym("S"), s) \o Entry(Sym("A"), a) :
        s \in Subs(GenPool, MaxGenProds) \ {<<>>},
        a \in Subs(GenPool, MaxGenProds)}

\* lines 331-335 for one call generate_words(g, s, L)
GenCall(g, s, L) ==
    /\ pc = "gen"
    /\ grammar = g /\ cfg = g
    /\ start = s
    /\ max_length = L
    /\ queue = <<<<s>>>>
    /\ words = {}
    /\ steps = <<>> /\ fresh = <<>>
    /\ cnf_in = <<>> /\ new_grammar = <<>> /\ final_grammar = <<>> /\ cnf_str = <<>>
    /\ src_words = NoWords /\ cnf_words = NoWords
    /\ text = <<>> /\ parsed = <<>>

InitGen ==
    \E g \in GenGrammars : \E L \in 0..MaxLength : GenCall(g, g[1].k, L)

\* lines 337-357: one iteration of `while queue:`
GenStep ==
    /\ pc = "gen"
    /\ queue # <<>>
    /\ Len(queue) <= MaxQueue
    /\ Len(Head(queue)) <= MaxSeqLen
    /\ LET st == GenIteration(grammar, max_length, [queue |-> queue, words |-> words])
       IN /\ queue' = st.queue
          /\ words' = st.words
    /\ UNCHANGED <<pc, cfg, grammar, start, steps, fresh, max_length,
                   convVars, cmpVars, fmtVars>>

\* line 359, reached when the loop ends
GenReturn ==
    /\ pc = "gen"
    /\ queue = <<>>
    /\ words' = GenResult(words, max_length)
    /\ pc' = "gen_returned"
    /\ UNCHANGED <<cfg, grammar, start, steps, fresh, max_length, queue,
                   convVars, cmpVars, fmtVars>>

NextGen == GenStep \/ GenReturn

SpecGen == InitGen /\ [][NextGen]_vars

\* grammars with one production per nonterminal, at most one nonterminal per
\* production and no production N -> N: the queue never holds more than one
\* sequence, and every iteration changes it
LinearPool == << EPS_PROD, <<Sym("a")>>, <<Sym("S")>>, <<Sym("A")>>,
                 <<Sym("a"), Sym("S")>>, <<Sym("S"), Sym("a")>>,
                 <<Sym("a"), Sym("A")>>, <<Sym("A"), Sym("a")>> >>

LinearEntries(nt) ==
    {Entry(nt, <<LinearPool[i]>>) : i \in {j \in DOMAIN LinearPool : LinearPool[j] # <<nt>>}}

LinearGrammars ==
    {s \o a : s \in LinearEntries(Sym("S")), a \in {<<>>} \cup LinearEntries(Sym("A"))}

InitGenLinear ==
    \E g \in LinearGrammars : \E L \in 0..MaxLength : GenCall(g, g[1].k, L)

\* the loop is sequential code: an iteration that can run does run
FairSpecGen ==
    InitGenLinear /\ [][NextGen]_vars /\ WF_vars(GenStep) /\ WF_vars(GenReturn)

\* --- the words a grammar derives, as a least fixed point -------------------
\* the concatenations of a word of X and a word of Y, of length at most L
CatSets(X, Y, L) == {w \in {x \o y : x \in X, y \in Y} : Len(w) <= L}

\* the words of length at most L a symbol stands for, given those of the
\* nonterminals
SymWords(lang, sym, L) ==
    IF sym \in DOMAIN lang THEN lang[sym]
    ELSE IF sym = EPS THEN {<<>>}
    ELSE {w \in {sym} : Len(w) <= L}

RECURSIVE ProdWords(_, _, _)
ProdWords(lang, prod, L) ==
    IF prod = <<>> THEN {<<>>}
    ELSE CatSets(SymWords(lang, prod[1], L), ProdWords(lang, Tail(prod), L), L)

LangStep(g, lang, L) ==
    [nt \in Keys(g) |->
        UNION {ProdWords(lang, Get(g, nt)[j], L) : j \in DOMAIN Get(g, nt)}]

RECURSIVE LangFix(_, _, _)
LangFix(g, lang, L) ==
    LET next == LangStep(g, lang, L)
    IN IF next = lang THEN lang ELSE LangFix(g, next, L)

\* the terminal strings of length at most L derivable from nonterminal s
Derivable(g, s, L) == LangFix(g, [nt \in Keys(g) |-> {}], L)[s]

\* C4: when generate_words returns, it returns exactly the terminal strings
\* of length at most max_length derivable from the start symbol.
C4_WordsExact ==
    pc = "gen_returned" => words = Derivable(grammar, start, max_length)

\* a call on a recursive grammar with a nullable start that returned the
\* empty word and a word of full length
C4_Witness ==
    /\ pc = "gen_returned"
    /\ StartOnRhs(grammar, start)
    /\ max_length = MaxLength
    /\ <<>> \in words
    /\ \E w \in words : Len(w) = max_length

\* C5: generate_words terminates: its queue eventually becomes empty and it
\* returns, for every grammar and every length bound.
C5_Terminates == <>(pc = "gen_returned")

\* ------------------------------------------------------------------
\* remove_unit_productions on its own
\* ------------------------------------------------------------------
\* most productions under one nonterminal of a grammar handed to it
MaxUnitProds == 2

UnitPool == << <<Sym("a")>>, <<Sym("S")>>, <<Sym("A")>>, <<Sym("B")>>,
               <<Sym("a"), Sym("A")>>, EPS_PROD >>

UnitGrammars ==
    {Entry(Sym("S"), s) \o Entry(Sym("A"), a) \o Entry(Sym("B"), b) :
        s \in Subs(UnitPool, MaxUnitProds) \ {<<>>},
        a \in Subs(UnitPool, MaxUnitProds),
        b \in Subs(UnitPool, MaxUnitProds)}

InitUnit ==
    /\ pc = "unit_call"
    /\ cfg \in UnitGrammars
    /\ grammar = cfg
    /\ start = cfg[1].k
    /\ Idle

\* grammar = remove_unit_productions(grammar)
CallRemoveUnit ==
    /\ pc = "unit_call"
    /\ grammar' = remove_unit_productions(grammar)
    /\ pc' = "unit_returned"
    /\ UNCHANGED <<cfg, start, steps, fresh, convVars, cmpVars, genVars, fmtVars>>

SpecUnit == InitUnit /\ [][CallRemoveUnit]_vars

\* the productions listed under nt, as a set; none when nt is no key
ProdSet(g, nt) == {GetOr(g, nt, <<>>)[j] : j \in DOMAIN GetOr(g, nt, <<>>)}

\* a single symbol that is a nonterminal of g
UnitProduction(g, prod) == Len(prod) = 1 /\ prod[1] \in Keys(g)

\* the nonterminals reachable from those of R by unit productions
RECURSIVE UnitReach(_, _)
UnitReach(g, R) ==
    LET more == R \cup {p[1] : p \in {q \in UNION {ProdSet(g, nt) : nt \in R} :
                                         UnitProduction(g, q)}}
    IN IF more = R THEN R ELSE UnitReach(g, more)

NoRepeat(xs) == \A i, j \in DOMAIN xs : i # j => xs[i] # xs[j]

\* C10: remove_unit_productions gives each nonterminal N exactly the non-unit
\* productions of the nonterminals reachable from N by zero or more unit
\* productions, each once, and leaves no unit production.
C10_UnitClosure ==
    pc = "unit_returned" =>
        /\ Keys(grammar) \subseteq Keys(cfg)
        /\ \A nt \in Keys(cfg) :
              /\ ProdSet(grammar, nt)
                   = {p \in UNION {ProdSet(cfg, m) : m \in UnitReach(cfg, {nt})} :
                         ~UnitProduction(cfg, p)}
              /\ NoRepeat(GetOr(grammar, nt, <<>>))
        /\ \A i \in DOMAIN grammar : \A j \in DOMAIN grammar[i].v :
              ~UnitProduction(grammar, grammar[i].v[j])

\* a call on a grammar with a cycle of unit productions between two
\* nonterminals, one of which brings a production the other lacks
C10_Witness ==
    /\ pc = "unit_returned"
    /\ \E m, n \in Keys(cfg) :
          /\ m # n
          /\ n \in UnitReach(cfg, {m}) /\ m \in UnitReach(cfg, {n})
          /\ \E p \in ProdSet(grammar, m) : p \notin ProdSet(cfg, m)

\* ------------------------------------------------------------------
\* format_grammar followed by parse_cfg
\* ------------------------------------------------------------------
\* most productions under one nonterminal of a formatted grammar
MaxFmtProds == 2

FmtPool == << EPS_PROD, <<Sym("a")>>, <<Sym("E")>>, <<T1>>,
              <<T1, Sym("a")>>, <<Sym("a"), Sym("E")>>, <<Sym("S"), T1>> >>

FmtGrammars ==
    {Entry(Sym("S"), s) \o Entry(T1, t) \o Entry(Sym("E"), e) :
        s \in Subs(FmtPool, MaxFmtProds) \ {<<>>},
        t \in Subs(FmtPool, MaxFmtProds),
        e \in Subs(FmtPool, MaxFmtProds)}

InitFmt ==
    /\ pc = "format"
    /\ cfg \in FmtGrammars
    /\ grammar = cfg
    /\ start = cfg[1].k
    /\ Idle

\* text = format_grammar(grammar)
Format ==
    /\ pc = "format"
    /\ text' = format_grammar(grammar)
    /\ pc' = "parse"
    /\ UNCHANGED <<cfg, grammar, start, steps, fresh, convVars, cmpVars, genVars, parsed>>

\* parsed = parse_cfg(text)
Parse ==
    /\ pc = "parse"
    /\ parsed' = parse_cfg(text)
    /\ pc' = "parsed"
    /\ UNCHANGED <<cfg, grammar, start, steps, fresh, convVars, cmpVars, genVars, text>>

NextFmt == Format \/ Parse

SpecFmt == InitFmt /\ [][NextFmt]_vars

\* the same nonterminals, each with the same set of productions
SameProductions(g, h) ==
    /\ Keys(g) = Keys(h)
    /\ \A nt \in Keys(g) : ProdSet(g, nt) = ProdSet(h, nt)

\* every production has two symbols or more: format_grammar writes it with
\* spaces and parse_cfg splits it on whitespace
Spaced(g) == \A i \in DOMAIN g : \A j \in DOMAIN g[i].v : Len(g[i].v[j]) >= 2

\* C7: parse_cfg(format_grammar(G)) has the nonterminals of G and, for each,
\* the same set of productions; stated here for the grammars of the claim
\* whose productions all have two symbols or more.
C7_RoundTrip == (pc = "parsed" /\ Spaced(grammar)) => SameProductions(parsed, grammar)
====
